---- MODULE Spec2Model ----
(***************************************************************************)
(* Model of lerp_table (src/src/lib.rs): the Piecewise container, its      *)
(* construction (TryFrom<Vec<Coord>>), its evaluation (y_at_x) and its     *)
(* serde round trip through JSON text.                                     *)
(*                                                                         *)
(* Numbers.  An f64 is modelled as a pair <<n, d>>:                        *)
(*   d > 0, gcd(|n|, d) = 1   the finite value n/d (exact, no rounding)    *)
(*   <<1, 0>>, <<-1, 0>>      +infinity, -infinity                         *)
(*   <<0, 0>>                 NaN                                          *)
(* The IEEE-754 rules for infinities and NaN are kept; rounding, finite    *)
(* overflow and the sign of zero are not modelled.                         *)
(***************************************************************************)
EXTENDS Integers, Sequences, FiniteSets, TLC

VARIABLES pc, points, pw, value, res, reads, json, back

vars == <<pc, points, pw, value, res, reads, json, back>>

(* ------------------------------ bounds -------------------------------- *)

\* longest input point list
MaxLen == 3
\* the finite x coordinates are 0..MaxX
MaxX == 2

(* ------------------------------ f64 ----------------------------------- *)

NaN == <<0, 0>>
PInf == <<1, 0>>
NInf == <<-1, 0>>

Abs(n) == IF n < 0 THEN -n ELSE n

Sgn(n) == IF n < 0 THEN -1 ELSE IF n = 0 THEN 0 ELSE 1

RECURSIVE Gcd(_, _)
Gcd(a, b) == IF b = 0 THEN a ELSE Gcd(b, a % b)

\* the finite value n/d in lowest terms, d # 0
Ratio(n, d) ==
    LET g == Gcd(Abs(n), Abs(d))
    IN  <<Sgn(d) * (n \div g), Sgn(d) * (d \div g)>>

F64(n) == <<n, 1>>

is_nan(a) == a = NaN

IsInf(a) == a[2] = 0 /\ a[1] # 0

IsZero(a) == a[1] = 0 /\ a[2] # 0

\* a < b for non-NaN a, b
Lt(a, b) ==
    IF a = b THEN FALSE
    ELSE IF a = NInf \/ b = PInf THEN TRUE
    ELSE IF a = PInf \/ b = NInf THEN FALSE
    ELSE a[1] * b[2] < b[1] * a[2]

\* Ord::cmp of NotNan<f64>
cmp(a, b) == IF Lt(a, b) THEN "Less" ELSE IF a = b THEN "Equal" ELSE "Greater"

FNeg(a) == <<-a[1], a[2]>>

FAdd(a, b) ==
    IF is_nan(a) \/ is_nan(b) THEN NaN
    ELSE IF IsInf(a) /\ IsInf(b) THEN (IF a = b THEN a ELSE NaN)
    ELSE IF IsInf(a) THEN a
    ELSE IF IsInf(b) THEN b
    ELSE Ratio(a[1] * b[2] + b[1] * a[2], a[2] * b[2])

FSub(a, b) == FAdd(a, FNeg(b))

FMul(a, b) ==
    IF is_nan(a) \/ is_nan(b) THEN NaN
    ELSE IF IsInf(a) \/ IsInf(b)
         THEN (IF IsZero(a) \/ IsZero(b) THEN NaN
               ELSE <<Sgn(a[1]) * Sgn(b[1]), 0>>)
    ELSE Ratio(a[1] * b[1], a[2] * b[2])

FDiv(a, b) ==
    IF is_nan(a) \/ is_nan(b) THEN NaN
    ELSE IF IsInf(a) /\ IsInf(b) THEN NaN
    ELSE IF IsInf(a) THEN <<Sgn(a[1]) * (IF b[1] < 0 THEN -1 ELSE 1), 0>>
    ELSE IF IsInf(b) THEN F64(0)
    ELSE IF IsZero(b) THEN (IF IsZero(a) THEN NaN ELSE <<Sgn(a[1]), 0>>)
    ELSE Ratio(a[1] * b[2], a[2] * b[1])

(* ------------------------------ results ------------------------------- *)

None == [tag |-> "None"]

Ok(v) == [tag |-> "Ok", val |-> v]

Err(e) == [tag |-> "Err", err |-> e]

\* the call does not return: the thread panics
Panic(m) == [tag |-> "Panic", msg |-> m]

(* ------------------------------ Coord --------------------------------- *)

\* Coord(NotNan<f64>, NotNan<f64>)
Coord(x, y) == <<x, y>>

\* Coord::try_from((x, y))
coord_try_from(x, y) ==
    IF is_nan(x) \/ is_nan(y) THEN Err("FloatIsNan") ELSE Ok(Coord(x, y))

(* --------------------------- construction ----------------------------- *)

RECURSIVE Insert(_, _)
\* p placed behind every element whose x is not greater than p's x
Insert(s, p) ==
    IF s = <<>> THEN <<p>>
    ELSE IF cmp(s[Len(s)][1], p[1]) = "Greater"
         THEN Append(Insert(SubSeq(s, 1, Len(s) - 1), p), s[Len(s)])
         ELSE Append(s, p)

\* mutant: the sort is left out
sort_by_none(s) == s

RECURSIVE sort_by(_)
\* points.sort_by(|a, b| a.0.cmp(&b.0)): a stable sort on x alone
sort_by(s) ==
    IF s = <<>> THEN <<>>
    ELSE Insert(sort_by(SubSeq(s, 1, Len(s) - 1)), s[Len(s)])

\* mutant: the scan tests y2 == y1 where the code tests y2 != y1
undefined_pair_same_y(s) ==
    \E i \in 1..(Len(s) - 1) : s[i + 1][1] = s[i][1] /\ s[i + 1][2] = s[i][2]

\* the scan over points.windows(2): some adjacent pair has x2 == x1 && y2 != y1
undefined_pair(s) ==
    \E i \in 1..(Len(s) - 1) : s[i + 1][1] = s[i][1] /\ s[i + 1][2] # s[i][2]

\* Piecewise::try_from(points)
try_from(pts) ==
    IF Len(pts) = 0 THEN Err("InputEmpty")
    ELSE IF Len(pts) = 1 THEN Ok(pts)
    ELSE LET sorted == sort_by(pts)
         IN  IF undefined_pair(sorted) THEN Err("InputUndefined") ELSE Ok(sorted)

(* ---------------------------- evaluation ------------------------------ *)

\* Result<usize, usize> of the search: Ok(idx) and Err(idx)
Found(i) == [tag |-> "Ok", idx |-> i]

NotFound(i) == [tag |-> "Err", idx |-> i]

RECURSIVE bisect(_, _, _, _)
\* bisection of data[lo..hi) (0-based); the probe is any index of the range
bisect(data, v, lo, hi) ==
    IF lo >= hi THEN {NotFound(lo)}
    ELSE UNION { LET c == cmp(data[mid + 1][1], v)
                 IN  IF c = "Equal" THEN {Found(mid)}
                     ELSE IF c = "Less" THEN bisect(data, v, mid + 1, hi)
                     ELSE bisect(data, v, lo, mid)
                 : mid \in lo..(hi - 1) }

\* data.binary_search_by(|point| point.0.cmp(&value)): the results it may give;
\* with several matches any one of them may be returned
binary_search_by(data, v) == bisect(data, v, 0, Len(data))

\* mutant: the guard without its x == 0 test
out_of_bounds_upper(data, x) == x - 1 > Len(data)

\* the guard of the first match arm: Err(x) if x == 0 || x - 1 > data.len()
out_of_bounds(data, x) == x = 0 \/ x - 1 > Len(data)

\* mutant: the reads shifted by one, data[index] and data[index + 1]
slope_reads_next(data, index) ==
    IF index + 1 >= Len(data) THEN <<>>
    ELSE <<data[index + 1], data[index + 2]>>

\* the reads of lines 108-109, data[index - 1] and data[index]; <<>> when
\* one of them panics (index - 1 underflows, or index is past the end)
slope_reads(data, index) ==
    IF index = 0 \/ index >= Len(data) THEN <<>>
    ELSE <<data[index], data[index + 1]>>

\* lines 111-113 on NotNan<f64>, whose operators panic on a NaN result
interpolate(p1, p2, v) ==
    LET dy == FSub(p1[2], p2[2])
        dx == FSub(p1[1], p2[1])
        slope == FDiv(dy, dx)
        dv == FSub(v, p1[1])
        prod == FMul(slope, dv)
        sum == FAdd(prod, p1[2])
    IN  IF is_nan(dy) \/ is_nan(dx) THEN Panic("Subtraction resulted in NaN")
        ELSE IF is_nan(slope) THEN Panic("Division resulted in NaN")
        ELSE IF is_nan(dv) THEN Panic("Subtraction resulted in NaN")
        ELSE IF is_nan(prod) THEN Panic("Multiplication resulted in NaN")
        ELSE IF is_nan(sum) THEN Panic("Addition resulted in NaN")
        ELSE Ok(sum)

\* mutant: the exact match returns the point's x, data[x].0
exact_match_x(data, x) == Ok(data[x + 1][1])

\* Ok(x) => return Ok(data[x].1.into_inner())
exact_match(data, x) == Ok(data[x + 1][2])

\* Piecewise::y_at_x(value) for a non-NaN value, given what the binary search returned
y_at_x(data, v, bsearch) ==
    IF bsearch.tag = "Err" /\ out_of_bounds(data, bsearch.idx)
    THEN Err("NotInDomain")
    ELSE IF bsearch.tag = "Ok" THEN exact_match(data, bsearch.idx)
    ELSE LET r == slope_reads(data, bsearch.idx)
         IN  IF r = <<>> THEN Panic("index out of bounds")
             ELSE interpolate(r[1], r[2], v)

\* the two points in hand when line 111 is reached, else <<>>
at_slope(data, bsearch) ==
    IF bsearch.tag = "Err" /\ ~out_of_bounds(data, bsearch.idx)
    THEN slope_reads(data, bsearch.idx)
    ELSE <<>>

(* --------------------------- serialization ---------------------------- *)

\* From<Piecewise> for Vec<(NotNan<f64>, NotNan<f64>)>: the push loop
RECURSIVE into_vec(_)
into_vec(data) ==
    IF data = <<>> THEN <<>>
    ELSE Append(into_vec(SubSeq(data, 1, Len(data) - 1)),
                <<data[Len(data)][1], data[Len(data)][2]>>)

Digits == <<"0", "1", "2", "3", "4", "5", "6", "7", "8", "9">>

IsDigit(c) == \E d \in 1..10 : Digits[d] = c

DigitVal(c) == (CHOOSE d \in 1..10 : Digits[d] = c) - 1

RECURSIVE NatChars(_)
NatChars(n) ==
    IF n < 10 THEN <<Digits[n + 1]>>
    ELSE Append(NatChars(n \div 10), Digits[(n % 10) + 1])

RECURSIVE NatVal(_)
NatVal(t) ==
    IF t = <<>> THEN 0
    ELSE NatVal(SubSeq(t, 1, Len(t) - 1)) * 10 + DigitVal(t[Len(t)])

RECURSIVE Pow10(_)
Pow10(k) == IF k = 0 THEN 1 ELSE 10 * Pow10(k - 1)

Null == <<"n", "u", "l", "l">>

\* the JSON text of one f64 (serde_json): null for a non-finite value, else
\* the decimal text, "n.0" for the integer-valued coordinates of the model
write_f64(v) ==
    IF is_nan(v) \/ IsInf(v) THEN Null
    ELSE (IF v[1] < 0 THEN <<"-">> ELSE <<>>) \o NatChars(Abs(v[1])) \o <<".", "0">>

\* the f64 read from the JSON text of one number, or an error: an optional
\* sign, digits, an optional fraction; null is not a number
parse_f64(t) ==
    LET neg == Len(t) > 0 /\ t[1] = "-"
        body == IF neg THEN Tail(t) ELSE t
        dots == {i \in 1..Len(body) : body[i] = "."}
        dot == IF dots = {} THEN Len(body) + 1 ELSE CHOOSE i \in dots : TRUE
        ip == SubSeq(body, 1, dot - 1)
        fp == SubSeq(body, dot + 1, Len(body))
        wellformed ==
            /\ Cardinality(dots) <= 1
            /\ ip # <<>>
            /\ dots # {} => fp # <<>>
            /\ \A i \in 1..Len(body) : i # dot => IsDigit(body[i])
        mag == Ratio(NatVal(ip) * Pow10(Len(fp)) + NatVal(fp), Pow10(Len(fp)))
    IN  IF ~wellformed THEN Err("invalid type")
        ELSE Ok(IF neg THEN FNeg(mag) ELSE mag)

\* serde_json::to_string(&piecewise): one pair of number texts per point
to_string(data) ==
    LET v == into_vec(data)
    IN  [i \in 1..Len(v) |-> <<write_f64(v[i][1]), write_f64(v[i][2])>>]

\* serde_json::from_str::<Piecewise>(text): Vec<Coord>, then try_from
from_str(text) ==
    LET xs == [i \in 1..Len(text) |-> parse_f64(text[i][1])]
        ys == [i \in 1..Len(text) |-> parse_f64(text[i][2])]
    IN  IF \E i \in 1..Len(text) : xs[i].tag # "Ok" \/ ys[i].tag # "Ok"
        THEN Err("invalid type")
        ELSE try_from([i \in 1..Len(text) |-> Coord(xs[i].val, ys[i].val)])

(* ------------------------------ inputs -------------------------------- *)

\* the points of the tests' SIDEARM table
SIDEARM == <<Coord(F64(0), F64(18)), Coord(F64(90), F64(36)), Coord(F64(100), F64(42))>>

\* x coordinates: -infinity and the integers 0..MaxX
XS == {NInf} \cup {F64(n) : n \in 0..MaxX}

\* y coordinates: two finite values and +infinity
YS == {F64(0), F64(1), PInf}

\* every Coord that Coord::try_from yields on the model's numbers
Coords ==
    {r.val : r \in {c \in {coord_try_from(x, y) : x \in XS \cup {NaN}, y \in YS \cup {NaN}} :
                        c.tag = "Ok"}}

Lists == UNION {[1..n -> Coords] : n \in 0..MaxLen} \cup {SIDEARM}

\* NaN, the infinities, the tests' two queries, and the half-integers from
\* -1 to MaxX + 1
Queries ==
    {NaN, NInf, PInf, F64(33), F64(93)} \cup {Ratio(n, 2) : n \in (-2)..(2 * MaxX + 2)}

(* ------------------------------ actions ------------------------------- *)

Init ==
    /\ pc = "new"
    /\ points \in Lists
    /\ pw = None
    /\ value = <<>>
    /\ res = None
    /\ reads = <<>>
    /\ json = <<>>
    /\ back = None

\* Piecewise::try_from(points)
TryFrom ==
    /\ pc = "new"
    /\ pw' = try_from(points)
    /\ pc' = "built"
    /\ UNCHANGED <<points, value, res, reads, json, back>>

\* piecewise.y_at_x(q)
YAtX(q) ==
    /\ pc = "built"
    /\ pw.tag = "Ok"
    /\ value' = q
    /\ \/ /\ is_nan(q)
          /\ res' = Err("InputNaN")
          /\ reads' = <<>>
       \/ /\ ~is_nan(q)
          /\ \E bsearch \in binary_search_by(pw.val, q) :
                /\ res' = y_at_x(pw.val, q, bsearch)
                /\ reads' = at_slope(pw.val, bsearch)
    /\ pc' = "evaluated"
    /\ UNCHANGED <<points, pw, json, back>>

\* serde_json::to_string(&piecewise)
Serialize ==
    /\ pc = "built"
    /\ pw.tag = "Ok"
    /\ json' = to_string(pw.val)
    /\ pc' = "serialized"
    /\ UNCHANGED <<points, pw, value, res, reads, back>>

\* serde_json::from_str(&json)
Deserialize ==
    /\ pc = "serialized"
    /\ back' = from_str(json)
    /\ pc' = "deserialized"
    /\ UNCHANGED <<points, pw, value, res, reads, json>>

\* construction and evaluation
Next ==
    \/ TryFrom
    \/ \E q \in Queries : YAtX(q)

Spec == Init /\ [][Next]_vars

\* construction and the serde round trip
NextSerde ==
    \/ TryFrom
    \/ Serialize
    \/ Deserialize

SpecSerde == Init /\ [][NextSerde]_vars

(* ------------------------ reference definitions ----------------------- *)

\* a <= b
Le(a, b) == a = b \/ Lt(a, b)

StoredXs(data) == {data[i][1] : i \in 1..Len(data)}

\* the smallest and the largest stored x, by a scan of all points
min_x(data) == CHOOSE m \in StoredXs(data) : \A x \in StoredXs(data) : Le(m, x)

max_x(data) == CHOOSE m \in StoredXs(data) : \A x \in StoredXs(data) : Le(x, m)

\* the stored points with the greatest x below q, and with the least x above q
PointsBelow(data, q) ==
    {data[i] : i \in {k \in 1..Len(data) :
        /\ Lt(data[k][1], q)
        /\ \A j \in 1..Len(data) : Lt(data[j][1], q) => Le(data[j][1], data[k][1])}}

PointsAbove(data, q) ==
    {data[i] : i \in {k \in 1..Len(data) :
        /\ Lt(q, data[k][1])
        /\ \A j \in 1..Len(data) : Lt(q, data[j][1]) => Le(data[k][1], data[j][1])}}

\* slope * (q - x1) + y1 with slope = (y1 - y2) / (x1 - x2)
Lerp(p1, p2, q) ==
    FAdd(FMul(FDiv(FSub(p1[2], p2[2]), FSub(p1[1], p2[1])), FSub(q, p1[1])), p1[2])

\* the input holds two points with equal x and different y, at any positions
Conflict(pts) ==
    \E i, j \in 1..Len(pts) : pts[i][1] = pts[j][1] /\ pts[i][2] # pts[j][2]

Reorderings(pts) ==
    {[i \in 1..Len(pts) |-> pts[f[i]]] :
        f \in {g \in [1..Len(pts) -> 1..Len(pts)] :
                  \A a, b \in 1..Len(pts) : g[a] = g[b] => a = b}}

Evaluated == pc = "evaluated" /\ ~is_nan(value)

(* ------------------------------ claims -------------------------------- *)

\* C1: a non-NaN query strictly above the largest stored x makes y_at_x return
\* the error NotInDomain (no abort, no number).
C1_AboveMaxNotInDomain ==
    (Evaluated /\ Lt(max_x(pw.val), value)) => res = Err("NotInDomain")

C3_AdjacentFunction ==
    pw.tag = "Ok" =>
        \A i \in 1..(Len(pw.val) - 1) :
            \/ Lt(pw.val[i][1], pw.val[i + 1][1])
            \/ pw.val[i][1] = pw.val[i + 1][1] /\ pw.val[i][2] = pw.val[i + 1][2]

C3_Witness ==
    /\ pw.tag = "Ok"
    /\ Len(pw.val) = 3
    /\ pw.val # points
    /\ pw.val[1] = pw.val[2]
    /\ Lt(pw.val[2][1], pw.val[3][1])

\* C4: for every stored point (x, y), duplicates included, y_at_x(x) returns
\* exactly y, whichever matching index the search returns.
C4_ExactRecovery ==
    Evaluated =>
        \A i \in 1..Len(pw.val) : pw.val[i][1] = value => res = Ok(pw.val[i][2])

C4_Witness ==
    /\ Evaluated
    /\ Len(pw.val) = 3
    /\ pw.val[2] = pw.val[3]
    /\ pw.val[1] # pw.val[2]
    /\ value = pw.val[2][1]
    /\ res = Ok(pw.val[2][2])

\* C5: a query strictly inside the range that equals no stored x returns
\* slope * (q - x1) + y1 over the two nearest bracketing points; on the
\* SIDEARM table the results at 33 and 93 are 24.6 and 37.8.
C5_Interpolation ==
    /\ (Evaluated /\ Lt(min_x(pw.val), value) /\ Lt(value, max_x(pw.val))
          /\ value \notin StoredXs(pw.val)) =>
            \A p1 \in PointsBelow(pw.val, value) : \A p2 \in PointsAbove(pw.val, value) :
                res = Ok(Lerp(p1, p2, value))
    /\ (Evaluated /\ points = SIDEARM /\ value = F64(33)) => res = Ok(Ratio(246, 10))
    /\ (Evaluated /\ points = SIDEARM /\ value = F64(93)) => res = Ok(Ratio(378, 10))

\* C6: for a non-NaN query, y_at_x returns a number if and only if
\* min_x <= q <= max_x.
C6_NumberIffInRange ==
    Evaluated =>
        ((res.tag = "Ok") <=> (Le(min_x(pw.val), value) /\ Le(value, max_x(pw.val))))

\* C7: the serialized form lists the points in ascending x order, and reading
\* it back succeeds and gives the stored sequence of construct(P') for every
\* permutation P' of the input.
C7_RoundTrip ==
    pc = "deserialized" =>
        /\ \A i \in 1..(Len(pw.val) - 1) : Le(pw.val[i][1], pw.val[i + 1][1])
        /\ Len(json) = Len(pw.val)
        /\ back.tag = "Ok"
        /\ \A p \in Reorderings(points) : back = try_from(p)

\* C8: a non-NaN query strictly below the smallest stored x makes y_at_x
\* return the error NotInDomain.
C8_BelowMinNotInDomain ==
    (Evaluated /\ Lt(value, min_x(pw.val))) => res = Err("NotInDomain")

C8_Witness ==
    /\ Evaluated
    /\ Len(pw.val) = 3
    /\ Lt(value, min_x(pw.val))
    /\ ~IsInf(value)
    /\ res = Err("NotInDomain")

\* C9: on a Piecewise of exactly one point (x, y), y_at_x(x) returns y and
\* every other non-NaN query returns the error NotInDomain.
C9_SinglePoint ==
    (Evaluated /\ Len(pw.val) = 1) =>
        res = (IF value = pw.val[1][1] THEN Ok(pw.val[1][2]) ELSE Err("NotInDomain"))

\* C10: whenever y_at_x reaches the slope computation, the two points it read
\* satisfy x1 < q < x2, so the divisor x1 - x2 is not zero.
C10_SlopeBracket ==
    (Evaluated /\ reads # <<>>) =>
        /\ Lt(reads[1][1], value)
        /\ Lt(value, reads[2][1])
        /\ reads[1][1] # reads[2][1]
        /\ ~IsZero(FSub(reads[1][1], reads[2][1]))

C10_Witness ==
    /\ Evaluated
    /\ reads # <<>>
    /\ Len(pw.val) = 3
    /\ pw.val[1] = pw.val[2]
    /\ reads = <<pw.val[2], pw.val[3]>>
    /\ res.tag = "Ok"

====
